---- MODULE Spec2Model ----
(***************************************************************************)
(* Model of tech_calendar/rebuild_calendar.py (class ExcelProcessor).      *)
(* Python strings are sequences of one-character strings, so that the      *)
(* regular expressions, strptime/strftime and the lexicographic sort of    *)
(* the source are computed character by character.                        *)
(***************************************************************************)
EXTENDS Integers, Sequences, FiniteSets, TLC

VARIABLES
    cell,        \* self.worksheet['A7'].value, the report-period text (line 28)
    pc,          \* position in process_rows: "start", "dated", "rows", "written",
                 \* "saved", or "error" once an exception left the method;
                 \* "tagged" after a call of extract_eng_circuit alone
    err,         \* the exception raised, "none" while there is none
    dates,       \* dates (line 72)
    headers,     \* headers (line 73)
    tech_keys,   \* the keys of tech_jobs in the order of their insertion
    tech_jobs,   \* tech_jobs (line 80): technician id -> (header -> text)
    rows,        \* the worksheet rows read so far by the loop of line 81
    updated_ws,  \* the rows appended to updated_ws (lines 77, 106)
    saved,       \* updated_wb.save was called (line 109)
    job_comment, \* the argument of extract_eng_circuit (line 53)
    tagged       \* its return value (line 69)

vars == <<cell, pc, err, dates, headers, tech_keys, tech_jobs, rows,
          updated_ws, saved, job_comment, tagged>>

(* ------------------------------ bounds --------------------------------- *)
\* number of data rows (worksheet rows from row 11 on) of one run
MaxRows == 3
\* longest report period, in days between its two dates, that is enumerated
MaxSpan == 3

(* --------------------------- characters -------------------------------- *)
Digits == {"0","1","2","3","4","5","6","7","8","9"}

\* the characters used, in code-point order (Python compares str by code point)
Ascii == <<"\n","\r"," ","#","+","-","/",
           "0","1","2","3","4","5","6","7","8","9",":",
           "A","B","C","D","E","F","G","H","I","J","K","L","M",
           "N","O","P","Q","R","S","T","U","V","W","X","Y","Z","_",
           "a","b","c","d","e","f","g","h","i","j","k","l","m",
           "n","o","p","q","r","s","t","u","v","w","x","y","z">>

\* ord(c), as the position of c in Ascii
OrdTable == [c \in {Ascii[i] : i \in 1..Len(Ascii)} |->
               CHOOSE i \in 1..Len(Ascii) : Ascii[i] = c]

Ord(c) == OrdTable[c]

\* the regular-expression class \w: digits, letters and "_"
WordChars == {c \in DOMAIN OrdTable : Ord(c) >= Ord("0") /\ c # ":"}

IsWord(c) == c \in WordChars

IsDigit(c) == c \in Digits

DigitVal(c) == Ord(c) - Ord("0")

DigitChar(n) == Ascii[Ord("0") + n]

\* str.upper() on one character
UpperChar(c) == IF Ord(c) >= Ord("a") THEN Ascii[Ord(c) - Ord("a") + Ord("A")] ELSE c

Upper(s) == [i \in 1..Len(s) |-> UpperChar(s[i])]

\* s[i:i+len(t)] == t  (i is 1-based)
MatchAt(s, i, t) ==
    /\ i + Len(t) - 1 <= Len(s)
    /\ \A k \in 1..Len(t) : s[i + k - 1] = t[k]

\* Python's  t in s
Contains(s, t) == \E i \in 1..(Len(s) + 1) : MatchAt(s, i, t)

\* the regular-expression assertion \b at the position before s[i]
Boundary(s, i) ==
    (i > 1 /\ IsWord(s[i - 1])) # (i <= Len(s) /\ IsWord(s[i]))

\* s < t for Python str (lexicographic by code point)
RECURSIVE StrLess(_, _)
StrLess(s, t) ==
    IF t = <<>> THEN FALSE
    ELSE IF s = <<>> THEN TRUE
    ELSE IF s[1] # t[1] THEN Ord(s[1]) < Ord(t[1])
    ELSE StrLess(Tail(s), Tail(t))

RECURSIVE Concat(_)
Concat(ss) == IF ss = <<>> THEN <<>> ELSE Head(ss) \o Concat(Tail(ss))

(* ------------------------- datetime.date ------------------------------- *)
IsLeap(y) == (y % 4 = 0) /\ ((y % 100 # 0) \/ (y % 400 = 0))

DaysInMonth(y, m) ==
    IF m = 2 THEN (IF IsLeap(y) THEN 29 ELSE 28)
    ELSE IF m \in {4, 6, 9, 11} THEN 30 ELSE 31

Date(y, m, d) == [y |-> y, m |-> m, d |-> d]

NoDate == Date(0, 0, 0)

\* a <= b on datetime.date
DateLE(a, b) ==
    \/ a.y < b.y
    \/ a.y = b.y /\ a.m < b.m
    \/ a.y = b.y /\ a.m = b.m /\ a.d <= b.d

\* date.max: adding a day to it raises OverflowError
IsDateMax(a) == a = Date(9999, 12, 31)

\* a + timedelta(days=1), for a # date.max
NextDay(a) ==
    IF a.d < DaysInMonth(a.y, a.m) THEN Date(a.y, a.m, a.d + 1)
    ELSE IF a.m < 12 THEN Date(a.y, a.m + 1, 1)
    ELSE Date(a.y + 1, 1, 1)

\* the decimal value of a sequence of digits
RECURSIVE ToInt(_)
ToInt(s) == IF s = <<>> THEN 0 ELSE 10 * ToInt(SubSeq(s, 1, Len(s) - 1)) + DigitVal(s[Len(s)])

\* index of the first "/" of s at or after i
RECURSIVE Slash(_, _)
Slash(s, i) == IF s[i] = "/" THEN i ELSE Slash(s, i + 1)

\* datetime.strptime(s, '%m/%d/%Y').date() for s a match of the date pattern:
\* ok is FALSE where strptime raises ValueError
strptime(s) ==
    LET i == Slash(s, 1)
        j == Slash(s, i + 1)
        m == ToInt(SubSeq(s, 1, i - 1))
        d == ToInt(SubSeq(s, i + 1, j - 1))
        y == ToInt(SubSeq(s, j + 1, Len(s)))
    IN  IF m \in 1..12 /\ y >= 1 /\ d >= 1 /\ d <= DaysInMonth(y, m)
        THEN [ok |-> TRUE, date |-> Date(y, m, d)]
        ELSE [ok |-> FALSE, date |-> NoDate]

Fmt2(n) == <<DigitChar(n \div 10), DigitChar(n % 10)>>

Fmt4(n) == <<DigitChar(n \div 1000), DigitChar((n \div 100) % 10),
             DigitChar((n \div 10) % 10), DigitChar(n % 10)>>

\* a.strftime('%m/%d/%Y'), years 1000..9999
strftime(a) == Fmt2(a.m) \o <<"/">> \o Fmt2(a.d) \o <<"/">> \o Fmt4(a.y)

(* ------------------- extract_dates_from_range -------------------------- *)
AllDigits(s, i, n) == i + n - 1 <= Len(s) /\ \A k \in i..(i + n - 1) : IsDigit(s[k])

\* a match of \d{1,2}/ starting at i: the index after the "/", or 0
DayOrMonth(s, i) ==
    IF AllDigits(s, i, 2) /\ MatchAt(s, i + 2, <<"/">>) THEN i + 3
    ELSE IF AllDigits(s, i, 1) /\ MatchAt(s, i + 1, <<"/">>) THEN i + 2
    ELSE 0

\* a match of \b\d{1,2}/\d{1,2}/\d{4}\b starting at i: the index after it, or 0
DateMatchEnd(s, i) ==
    LET a == DayOrMonth(s, i)
        b == IF a = 0 THEN 0 ELSE DayOrMonth(s, a)
    IN  IF Boundary(s, i) /\ b # 0 /\ AllDigits(s, b, 4) /\ Boundary(s, b + 4)
        THEN b + 4 ELSE 0

\* re.findall(r'\b\d{1,2}/\d{1,2}/\d{4}\b', s), scanning from i
RECURSIVE FindAllFrom(_, _)
FindAllFrom(s, i) ==
    IF i > Len(s) THEN <<>>
    ELSE LET e == DateMatchEnd(s, i)
         IN  IF e # 0 THEN <<SubSeq(s, i, e - 1)>> \o FindAllFrom(s, e)
             ELSE FindAllFrom(s, i + 1)

date_matches(s) == FindAllFrom(s, 1)

\* the while loop of lines 41-43
RECURSIVE DateLoop(_, _, _)
DateLoop(current_date, end_date, acc) ==
    IF ~DateLE(current_date, end_date) THEN [err |-> "none", dates |-> acc]
    ELSE IF IsDateMax(current_date) THEN [err |-> "OverflowError", dates |-> {}]
    ELSE DateLoop(NextDay(current_date), end_date, acc \cup {strftime(current_date)})

\* extract_dates_from_range with the test of line 32 weakened to len(date_matches) < 2
\* and the first two matches taken as the period
extract_dates_first_two(cell_value) ==
    LET ms == date_matches(cell_value)
    IN  IF Len(ms) < 2 THEN [err |-> "ValueError", dates |-> {}]
        ELSE LET s == strptime(ms[1])
                 e == strptime(ms[2])
             IN  IF ~s.ok \/ ~e.ok THEN [err |-> "ValueError", dates |-> {}]
                 ELSE DateLoop(s.date, e.date, {})

\* the result of extract_dates_from_range on the text of cell A7:
\* err is the exception raised ("none": it returns dates)
extract_dates_from_range(cell_value) ==
    LET ms == date_matches(cell_value)
    IN  IF Len(ms) # 2 THEN [err |-> "ValueError", dates |-> {}]
        ELSE LET s == strptime(ms[1])
                 e == strptime(ms[2])
             IN  IF ~s.ok \/ ~e.ok THEN [err |-> "ValueError", dates |-> {}]
                 ELSE DateLoop(s.date, e.date, {})

(* --------------------------- create_headers ---------------------------- *)
\* sorted(S) for a set of str
RECURSIVE sorted(_)
sorted(S) ==
    IF S = {} THEN <<>>
    ELSE LET least == CHOOSE x \in S : \A z \in S \ {x} : StrLess(x, z)
         IN  <<least>> \o sorted(S \ {least})

S_Name == <<"N","a","m","e">>
S_Tech == <<"T","e","c","h"," ","#">>
S_Morning == <<"M","o","r","n","i","n","g">>
S_Afternoon == <<"A","f","t","e","r","n","o","o","n">>

RECURSIVE SlotLabels(_)
SlotLabels(ds) ==
    IF ds = <<>> THEN <<>>
    ELSE <<Head(ds) \o <<" ">> \o S_Morning, Head(ds) \o <<" ">> \o S_Afternoon>>
         \o SlotLabels(Tail(ds))

create_headers(ds) == <<S_Name, S_Tech>> \o SlotLabels(sorted(ds))

(* ------------------------- extract_eng_circuit ------------------------- *)
\* the alternatives of circuit_pattern, in the order of the source
circuit_terms ==
    << <<"F","I","A">>,
       <<"D","I","A">>,
       <<"D","E","D","I","C","A","T","E","D"," ","I","N","T","E","R","N","E","T"," ","S","E","R","V","I","C","E">>,
       <<"C","A","R","R","I","E","R"," ","E","-","A","C","C","E","S","S">>,
       <<"H","V","O","F">>,
       <<"H","V">>,
       <<"H","V","O","D">>,
       <<"S","B","B">>,
       <<"B","E","N","C","H"," ","T","E","S","T">>,
       <<"F","C","+">>,
       <<"T","R","U","N","K">>,
       <<"M","N","S">>,
       <<"M","R","S">>,
       <<"M","N","E">>,
       <<"M","A","N","A","G","E","D"," ","N","E","T","W","O","R","K"," ","E","D","G","E">>,
       <<"A","G","G"," ","S","W","I","T","C","H">> >>

\* the alternatives of action_pattern, in the order of the source
action_terms ==
    << <<"M","W">>,
       <<"I","N","S","T","A","L","L">>,
       <<"P","R","E">>,
       <<"E","Q","U","I","P","M","E","N","T"," ","P","U">>,
       <<"E","Q","U","I","P","M","E","N","T"," ","P","/","U">>,
       <<"E","Q","U","I","P"," ","P","U">>,
       <<"E","Q","U","I","P"," ","P","/","U">>,
       <<"S","W","E","E","P">> >>

\* the alternative of \b(t1|t2|...)\b that matches at i: its index in terms, or 0.
\* The alternatives are tried in order, and one whose trailing \b fails is given up
\* for the next.
AltAt(s, i, terms) ==
    LET ok == {k \in 1..Len(terms) :
                  MatchAt(s, i, terms[k]) /\ Boundary(s, i + Len(terms[k]))}
    IN  IF Boundary(s, i) /\ ok # {}
        THEN CHOOSE k \in ok : \A z \in ok : k <= z
        ELSE 0

\* pattern.search(s) for \b(t1|t2|...)\b, scanning from i: match[0], or '' for None
RECURSIVE VocabSearch(_, _, _)
VocabSearch(s, i, terms) ==
    IF i > Len(s) THEN <<>>
    ELSE IF AltAt(s, i, terms) # 0 THEN terms[AltAt(s, i, terms)]
    ELSE VocabSearch(s, i + 1, terms)

S_ENG == <<"E","N","G","-">>

\* the index after the run of digits that starts at i
RECURSIVE DigitsEnd(_, _)
DigitsEnd(s, i) == IF i <= Len(s) /\ IsDigit(s[i]) THEN DigitsEnd(s, i + 1) ELSE i

\* eng_pattern.search(s) for ENG-\d+, scanning from i: match[0], or '' for None
RECURSIVE EngSearch(_, _)
EngSearch(s, i) ==
    IF i > Len(s) THEN <<>>
    ELSE IF MatchAt(s, i, S_ENG) /\ AllDigits(s, i + 4, 1)
         THEN SubSeq(s, i, DigitsEnd(s, i + 4) - 1)
    ELSE EngSearch(s, i + 1)

\* the tuple (eng, action, circuit_type) returned for a str job_comment
extract_eng_circuit(comment) ==
    <<EngSearch(comment, 1),
      VocabSearch(comment, 1, action_terms),
      VocabSearch(comment, 1, circuit_terms)>>


(* ------------------------- Python values of a row ---------------------- *)
\* a worksheet cell value: None, an int, a str or a datetime
PyNone == [kind |-> "none", s |-> <<>>, d |-> NoDate]
PyInt(digits) == [kind |-> "int", s |-> digits, d |-> NoDate]
PyStr(s) == [kind |-> "str", s |-> s, d |-> NoDate]
PyDatetime(d) == [kind |-> "datetime", s |-> <<>>, d |-> d]

S_None == <<"N","o","n","e">>

\* str(v), and the formatting of v in an f-string, for None, int and str
Str(v) == IF v.kind = "none" THEN S_None ELSE v.s

\* tech_info.get(tech_num, 'Unknown Tech') of mlib.key_data
S_UnknownTech == <<"U","n","k","n","o","w","n"," ","T","e","c","h">>
tech_info_get(tech_num) ==
    IF tech_num = <<"7">> THEN <<"A","n","n">> ELSE S_UnknownTech

(* ------------------------------ inputs --------------------------------- *)
S_ReportPeriod == <<"R","e","p","o","r","t"," ","P","e","r","i","o","d",":"," ">>
S_Dash == <<" ","-"," ">>
T_12_30_2023 == <<"1","2","/","3","0","/","2","0","2","3">>
T_12_31_2023 == <<"1","2","/","3","1","/","2","0","2","3">>
T_01_01_2024 == <<"0","1","/","0","1","/","2","0","2","4">>
T_1_1_2024 == <<"1","/","1","/","2","0","2","4">>
T_1_2_2024 == <<"1","/","2","/","2","0","2","4">>
T_02_28_2024 == <<"0","2","/","2","8","/","2","0","2","4">>
T_02_29_2024 == <<"0","2","/","2","9","/","2","0","2","4">>
T_03_01_2024 == <<"0","3","/","0","1","/","2","0","2","4">>
T_12_30_9999 == <<"1","2","/","3","0","/","9","9","9","9">>
T_12_31_9999 == <<"1","2","/","3","1","/","9","9","9","9">>
T_02_30_2023 == <<"0","2","/","3","0","/","2","0","2","3">>
T_13_01_2023 == <<"1","3","/","0","1","/","2","0","2","3">>

\* the texts of cell A7 of the runs of Spec
MainCells ==
    { S_ReportPeriod \o T_12_31_2023 \o S_Dash \o T_01_01_2024,
      S_ReportPeriod \o T_12_30_2023 \o S_Dash \o T_12_31_2023,
      S_ReportPeriod \o T_12_31_2023 }

C_MwDia == <<"E","N","G","-","1"," ","M","W"," ","D","I","A">>
C_Sweep == <<"E","N","G","-","2","2"," ","S","W","E","E","P"," ","H","V">>
TS_9AM == <<"9"," ","A","M">>
TS_10am == <<"1","0"," ","a","m">>
TS_2pm == <<"2"," ","p","m">>
TS_2PM == <<"2"," ","P","M">>
S_Addr == <<"5"," ","E","L","M">>

Row(tech, date, timeslot, comment) ==
    [tech |-> tech, addr |-> PyStr(S_Addr), date |-> date,
     timeslot |-> timeslot, comment |-> comment]

D_12_31_2023 == PyDatetime(Date(2023, 12, 31))

\* the data rows a run may read (columns C, E, F, G, H of a worksheet row)
Rows ==
    { Row(PyInt(<<"7">>), D_12_31_2023, PyStr(TS_9AM), PyStr(C_MwDia)),
      Row(PyStr(<<"7">>), D_12_31_2023, PyStr(TS_10am), PyStr(C_Sweep)),
      Row(PyStr(<<"7">>), D_12_31_2023, PyStr(TS_2pm), PyStr(C_MwDia)),
      Row(PyStr(<<"9">>), D_12_31_2023, PyStr(TS_9AM), PyStr(C_MwDia)),
      Row(PyStr(<<"9">>), PyStr(T_01_01_2024), PyStr(TS_2PM), PyStr(C_Sweep)),
      Row(PyStr(<<"7">>), PyStr(T_1_1_2024), PyStr(TS_9AM), PyStr(C_MwDia)),
      Row(PyStr(<<"9">>), PyNone, PyStr(TS_9AM), PyStr(C_MwDia)),
      Row(PyStr(<<"7">>), PyDatetime(Date(2024, 1, 2)), PyStr(TS_9AM), PyStr(C_Sweep)),
      Row(PyStr(<<"9">>), D_12_31_2023, PyNone, PyStr(C_MwDia)),
      Row(PyStr(<<"4">>), D_12_31_2023, PyStr(TS_9AM), PyNone) }

(* ----------------------------- process_rows ---------------------------- *)
\* line 82
tech_num_of(row) == Str(row.tech)

\* line 87: a datetime is formatted, any other value is taken as it is
date_str_of(row) ==
    IF row.date.kind = "datetime" THEN PyStr(strftime(row.date.d)) ELSE row.date

\* line 92
job_details_of(row) ==
    LET t == extract_eng_circuit(row.comment.s)
    IN  t[1] \o <<"\r","\n">> \o t[2] \o <<" ">> \o t[3] \o <<" ">> \o Str(row.addr)
        \o <<"\r","\n"," ">> \o Str(row.timeslot)

\* line 94
time_category_of(row) ==
    IF Contains(Upper(row.timeslot.s), <<"P","M">>) THEN S_Afternoon ELSE S_Morning

\* line 95
date_header_of(row) == Str(date_str_of(row)) \o <<" ">> \o time_category_of(row)

\* RowError of a loop that catches the exception of a row and goes on
RowError_Ignored(row) == "none"

\* RowError of a loop without the else branch of line 99: a slot header that is not
\* a key of the technician's dict raises KeyError
RowError_KeyError(row) ==
    IF row.comment.kind # "str" THEN "TypeError"
    ELSE IF row.timeslot.kind # "str" THEN "AttributeError"
    ELSE IF date_header_of(row) \notin {headers[k] : k \in 3..Len(headers)} THEN "KeyError"
    ELSE "none"

\* the exception a row raises in lines 82-100 ("none": it is processed)
RowError(row) ==
    IF row.comment.kind # "str" THEN "TypeError"
    ELSE IF row.timeslot.kind # "str" THEN "AttributeError"
    ELSE "none"

\* lines 83-84: the technician's dict, created on the first row of the technician
WithTech(jobs_by_tech, hs, t) ==
    IF t \in DOMAIN jobs_by_tech THEN jobs_by_tech
    ELSE [x \in DOMAIN jobs_by_tech \cup {t} |->
            IF x = t THEN [h \in {hs[i] : i \in 3..Len(hs)} |-> <<>>]
            ELSE jobs_by_tech[x]]

\* AddJob with = in place of += in line 98
AddJob_Overwrite(jobs, h, details) ==
    [x \in DOMAIN jobs \cup {h} |-> IF x = h THEN details ELSE jobs[x]]

\* lines 97-100 on one technician's dict
AddJob(jobs, h, details) ==
    IF h \in DOMAIN jobs
    THEN [jobs EXCEPT ![h] = @ \o details]
    ELSE [x \in DOMAIN jobs \cup {h} |-> IF x = h THEN details ELSE jobs[x]]

\* new_row that leaves out the empty cells
new_row_nonempty(jobs_by_tech, hs, t) ==
    <<tech_info_get(t), t>> \o
    SelectSeq([k \in 1..(Len(hs) - 2) |-> jobs_by_tech[t][hs[k + 2]]],
              LAMBDA v : v # <<>>)

\* items_order that walks the technicians in sorted order
items_sorted(keys) == sorted({keys[i] : i \in 1..Len(keys)})

\* line 103: tech_jobs.items() walks the keys in the order of their insertion
items_order(keys) == keys

\* line 105
new_row(jobs_by_tech, hs, t) ==
    <<tech_info_get(t), t>> \o [k \in 1..(Len(hs) - 2) |-> jobs_by_tech[t][hs[k + 2]]]

Blank ==
    /\ pc = "start" /\ err = "none" /\ dates = {} /\ headers = <<>>
    /\ tech_keys = <<>> /\ tech_jobs = <<>> /\ rows = <<>>
    /\ updated_ws = <<>> /\ saved = FALSE
    /\ tagged = <<>>

Init == cell \in MainCells /\ job_comment = <<>> /\ Blank

\* line 72
ExtractDates ==
    /\ pc = "start"
    /\ LET r == extract_dates_from_range(cell)
       IN  /\ err' = r.err
           /\ dates' = r.dates
           /\ pc' = IF r.err = "none" THEN "dated" ELSE "error"
    /\ UNCHANGED <<cell, headers, tech_keys, tech_jobs, rows, updated_ws, saved,
                   job_comment, tagged>>

\* lines 73-80
CreateHeaders ==
    /\ pc = "dated"
    /\ headers' = create_headers(dates)
    /\ updated_ws' = <<headers'>>
    /\ tech_jobs' = <<>>
    /\ tech_keys' = <<>>
    /\ pc' = "rows"
    /\ UNCHANGED <<cell, err, dates, rows, saved, job_comment, tagged>>

\* one iteration of the loop of lines 81-100, on the next worksheet row
ProcessRow ==
    /\ pc = "rows"
    /\ Len(rows) < MaxRows
    /\ \E row \in Rows :
         LET t == tech_num_of(row)
             known == WithTech(tech_jobs, headers, t)
         IN  /\ rows' = Append(rows, row)
             /\ tech_keys' = IF t \in DOMAIN tech_jobs THEN tech_keys
                             ELSE Append(tech_keys, t)
             /\ err' = RowError(row)
             /\ IF RowError(row) # "none"
                THEN /\ tech_jobs' = known
                     /\ pc' = "error"
                ELSE /\ tech_jobs' =
                          [known EXCEPT ![t] =
                              AddJob(@, date_header_of(row), job_details_of(row))]
                     /\ pc' = "rows"
    /\ UNCHANGED <<cell, dates, headers, updated_ws, saved, job_comment, tagged>>

\* lines 102-106, once the worksheet has no more rows
WriteRows ==
    /\ pc = "rows"
    /\ updated_ws' = updated_ws \o
          [i \in 1..Len(tech_keys) |->
              new_row(tech_jobs, headers, items_order(tech_keys)[i])]
    /\ pc' = "written"
    /\ UNCHANGED <<cell, err, dates, headers, tech_keys, tech_jobs, rows, saved,
                   job_comment, tagged>>

\* lines 108-109
Save ==
    /\ pc = "written"
    /\ saved' = TRUE
    /\ pc' = "saved"
    /\ UNCHANGED <<cell, err, dates, headers, tech_keys, tech_jobs, rows,
                   updated_ws, job_comment, tagged>>

Next == ExtractDates \/ CreateHeaders \/ ProcessRow \/ WriteRows \/ Save

Spec == Init /\ [][Next]_vars


(* --------------------- report periods of SpecDates --------------------- *)
\* date.toordinal(), from the calendar rules and not from the loop of the source
RECURSIVE DaysBeforeMonth(_, _)
DaysBeforeMonth(y, m) ==
    IF m = 1 THEN 0 ELSE DaysBeforeMonth(y, m - 1) + DaysInMonth(y, m - 1)

ToOrdinal(a) ==
    (a.y - 1) * 365 + (a.y - 1) \div 4 - (a.y - 1) \div 100 + (a.y - 1) \div 400
    + DaysBeforeMonth(a.y, a.m) + a.d

DateTexts ==
    { T_12_30_2023, T_12_31_2023, T_01_01_2024, T_1_2_2024, T_02_28_2024,
      T_02_29_2024, T_03_01_2024, T_12_30_9999, T_12_31_9999, T_02_30_2023,
      T_13_01_2023 }

\* text that holds no date: a year of five digits, a month glued to a letter
S_FiveDigitYear == <<" ","1","/","5","/","2","0","2","3","4">>
S_GluedMonth == <<" ","x","1","/","5","/","2","0","2","3">>

\* a report period of two dates that is short enough to enumerate
ShortPeriod(a, b) ==
    strptime(a).ok /\ strptime(b).ok /\ DateLE(strptime(a).date, strptime(b).date)
        => ToOrdinal(strptime(b).date) - ToOrdinal(strptime(a).date) <= MaxSpan

\* the date substrings of a cell text, as it is written
DateLists ==
    {<<>>} \cup {<<a>> : a \in DateTexts}
    \cup {p \in DateTexts \X DateTexts : ShortPeriod(p[1], p[2])}
    \cup {<<a, b, c>> : a \in {T_12_30_2023, T_12_30_9999},
                        b \in {T_12_31_2023, T_02_30_2023},
                        c \in {T_12_30_2023, T_01_01_2024}}

RECURSIVE JoinDates(_)
JoinDates(ds) ==
    IF ds = <<>> THEN <<>>
    ELSE IF Len(ds) = 1 THEN ds[1]
    ELSE ds[1] \o S_Dash \o JoinDates(Tail(ds))

\* the text of a cell written as: pre, the dates ds joined by " - ", post
CellText(pre, ds, post) == pre \o JoinDates(ds) \o post

Pres == {S_ReportPeriod, <<>>}
Posts == {<<>>, S_FiveDigitYear, S_GluedMonth}

DateCells == {CellText(pre, ds, post) : pre \in Pres, ds \in DateLists, post \in Posts}

InitDates == cell \in DateCells /\ job_comment = <<>> /\ Blank

NextDates == ExtractDates \/ CreateHeaders

\* extract_dates_from_range and create_headers on every report period of DateCells
SpecDates == InitDates /\ [][NextDates]_vars

(* ------------------------ comments of SpecTagger ----------------------- *)
TermsOf(terms) == {terms[k] : k \in 1..Len(terms)}

EngTerms == {<<"E","N","G","-","1">>, <<"E","N","G","-","4","0","7">>}

\* a comment that holds the ticket id e, the action a and the circuit type c
\* (each of them possibly absent, ''), in this order or with a and c swapped
RECURSIVE JoinWords(_)
JoinWords(ws) ==
    IF ws = <<>> THEN <<>>
    ELSE IF Head(ws) = <<>> THEN JoinWords(Tail(ws))
    ELSE IF JoinWords(Tail(ws)) = <<>> THEN Head(ws)
    ELSE Head(ws) \o <<" ">> \o JoinWords(Tail(ws))

CommentOf(e, a, c, swap) ==
    IF swap THEN JoinWords(<<e, c, a>>) ELSE JoinWords(<<e, a, c>>)

\* comments that hold no term of any vocabulary
PlainComments ==
    { <<>>, <<"C","A","L","L"," ","S","I","T","E">>, <<"E","N","G","-">>,
      <<"P","R","E","P"," ","H","V","X">>, <<"e","n","g","-","1"," ","m","w"," ","d","i","a">>,
      <<"M","W","S"," ","_","D","I","A">> }

Comments ==
    PlainComments \cup
    {CommentOf(e, a, c, swap) :
        e \in EngTerms \cup {<<>>}, a \in TermsOf(action_terms) \cup {<<>>},
        c \in TermsOf(circuit_terms) \cup {<<>>}, swap \in BOOLEAN}

InitTagger == cell = <<>> /\ job_comment \in Comments /\ Blank

\* line 91
Tag ==
    /\ pc = "start"
    /\ tagged' = extract_eng_circuit(job_comment)
    /\ pc' = "tagged"
    /\ UNCHANGED <<cell, err, dates, headers, tech_keys, tech_jobs, rows,
                   updated_ws, saved, job_comment>>

NextTagger == Tag

\* extract_eng_circuit on every comment of Comments
SpecTagger == InitTagger /\ [][NextTagger]_vars


(* ======================= properties of the program ===================== *)
Written == pc \in {"written", "saved"}

\* the slot headers of the schema
SlotHeaders == {headers[k] : k \in 3..Len(headers)}

\* a row with a str comment and a str timeslot: lines 82-100 raise nothing on it
WellFormed(row) == row.comment.kind = "str" /\ row.timeslot.kind = "str"

\* the job blocks of the rows of rs, in the order of rs, that are of technician t
\* and resolve to the slot header h
RECURSIVE BlocksOf(_, _, _)
BlocksOf(rs, t, h) ==
    IF rs = <<>> THEN <<>>
    ELSE IF WellFormed(Head(rs)) /\ Str(Head(rs).tech) = t /\ date_header_of(Head(rs)) = h
         THEN <<job_details_of(Head(rs))>> \o BlocksOf(Tail(rs), t, h)
    ELSE BlocksOf(Tail(rs), t, h)

\* the OutputRows written for technician t
RowsOfTech(t) == {i \in 2..Len(updated_ws) : updated_ws[i][2] = t}

\* C1: when two or more records of one technician resolve to the same slot header of
\* the schema, the technician's cell for that slot, in the bucket map and in the
\* OutputRow, is the concatenation of all of their job blocks in the order the rows
\* were read.
C1_BlocksConcatenatedInOrder ==
    \A t \in DOMAIN tech_jobs : \A h \in SlotHeaders :
        LET blocks == BlocksOf(rows, t, h)
        IN  Len(blocks) >= 2 =>
              /\ tech_jobs[t][h] = Concat(blocks)
              /\ Written =>
                   \A i \in RowsOfTech(t) : \A k \in 3..Len(headers) :
                       headers[k] = h => updated_ws[i][k] = Concat(blocks)

\* two different blocks of one technician merged into one cell of a saved table
C1_Witness ==
    /\ pc = "saved"
    /\ \E t \in DOMAIN tech_jobs : \E h \in SlotHeaders :
         /\ Len(BlocksOf(rows, t, h)) >= 2
         /\ BlocksOf(rows, t, h)[1] # BlocksOf(rows, t, h)[2]
         /\ RowsOfTech(t) # {}

\* the cell texts written with zero, one or three dates
NotTwoDateCells ==
    {CellText(pre, ds, post) :
        pre \in Pres, ds \in {x \in DateLists : Len(x) # 2}, post \in Posts}

\* C3: a report period written with zero, one or three dates ends in the ValueError
\* of line 33: no date set and no header list is produced.
C3_NotTwoDatesIsError ==
    (pc # "start" /\ cell \in NotTwoDateCells) =>
        pc = "error" /\ err = "ValueError" /\ dates = {} /\ headers = <<>>

\* a report period of three dates, the first two of them a valid period, is refused
C3_Witness ==
    /\ pc = "error"
    /\ cell = CellText(S_ReportPeriod, <<T_12_30_2023, T_12_31_2023, T_01_01_2024>>, <<>>)

\* C5: every OutputRow has one value for every column of the header list, in the
\* order of the header list: the display name, the technician id, then the
\* technician's bucket value of each slot header.
C5_RowsAlignToSchema ==
    Written =>
        /\ updated_ws[1] = headers
        /\ headers = create_headers(dates)
        /\ \A i \in 2..Len(updated_ws) :
             LET t == updated_ws[i][2]
             IN  /\ Len(updated_ws[i]) = Len(headers)
                 /\ t \in DOMAIN tech_jobs
                 /\ updated_ws[i][1] = tech_info_get(t)
                 /\ \A k \in 3..Len(headers) : updated_ws[i][k] = tech_jobs[t][headers[k]]

\* a written row of a technician with an empty slot and a record outside the schema
C5_Witness ==
    /\ pc = "saved"
    /\ \E i \in 2..Len(updated_ws) :
         /\ \E k \in 3..Len(headers) : updated_ws[i][k] = <<>>
         /\ \E k \in 3..Len(headers) : updated_ws[i][k] # <<>>
         /\ DOMAIN tech_jobs[updated_ws[i][2]] # SlotHeaders

\* C8: the output workbook is saved only after the report period was extracted and
\* every row was processed without error; a run that ends in an error saved nothing.
C8_NoSaveOnError ==
    /\ pc = "error" => ~saved
    /\ saved =>
         /\ pc = "saved"
         /\ \E a \in DateTexts : \E b \in DateTexts :
                cell = CellText(S_ReportPeriod, <<a, b>>, <<>>)
         /\ \A i \in 1..Len(rows) : WellFormed(rows[i])

\* a run that fails on a data row after it processed another one, nothing saved
C8_Witness ==
    /\ pc = "error"
    /\ Len(rows) >= 2
    /\ ~WellFormed(rows[Len(rows)])
    /\ ~saved

\* the technician ids of rs in the order of their first occurrence
RECURSIVE FirstSeen(_, _)
FirstSeen(rs, seen) ==
    IF rs = <<>> THEN <<>>
    ELSE IF Str(Head(rs).tech) \in seen THEN FirstSeen(Tail(rs), seen)
    ELSE <<Str(Head(rs).tech)>> \o FirstSeen(Tail(rs), seen \cup {Str(Head(rs).tech)})

\* C9: exactly one OutputRow per distinct technician id of the rows read, in the
\* order in which each id was first read.
C9_OneRowPerTechInFirstSeenOrder ==
    Written =>
        [i \in 1..(Len(updated_ws) - 1) |-> updated_ws[i + 1][2]] = FirstSeen(rows, {})

\* three rows of two technicians, the first technician read again after the second,
\* and the first-seen order is not the sorted order
C9_Witness ==
    /\ pc = "saved"
    /\ Len(rows) = 3
    /\ Str(rows[1].tech) = <<"9">> /\ Str(rows[2].tech) = <<"7">>
    /\ Str(rows[3].tech) = <<"9">>
    /\ Len(updated_ws) = 3

\* C10: a record whose slot header is not in the schema raises no error and leaves
\* the header list, the written sheet and every schema cell of every technician
\* unchanged; and every written cell is made of the blocks of the records that
\* resolve to its header, so the block of such a record is in no OutputRow.
C10_Step ==
    /\ (/\ pc = "rows" /\ Len(rows') = Len(rows) + 1
        /\ WellFormed(rows'[Len(rows')])
        /\ date_header_of(rows'[Len(rows')]) \notin SlotHeaders)
       => /\ pc' = "rows" /\ err' = "none"
          /\ headers' = headers /\ updated_ws' = updated_ws
          /\ \A t \in DOMAIN tech_jobs' : \A h \in SlotHeaders :
                tech_jobs'[t][h] = IF t \in DOMAIN tech_jobs THEN tech_jobs[t][h] ELSE <<>>
    /\ (pc = "rows" /\ pc' = "written")
       => \A i \in 2..Len(updated_ws') :
             /\ Len(updated_ws'[i]) = Len(headers)
             /\ \A k \in 3..Len(headers) :
                   updated_ws'[i][k] = Concat(BlocksOf(rows, updated_ws'[i][2], headers[k]))

\* C10, as a property of every step: C10_Step holds of every step of the run
C10_OutOfSchemaRecordIsDropped == [][C10_Step]_vars

\* a saved table of a run that read a record of an unpadded date string and a record
\* without date: one technician has a job in the schema, the other an empty row
C10_Witness ==
    /\ pc = "saved"
    /\ \E i \in 1..Len(rows) : rows[i].date = PyStr(T_1_1_2024)
    /\ \E i \in 1..Len(rows) : rows[i].date = PyNone
    /\ \E i \in 2..Len(updated_ws) : \E k \in 3..Len(headers) : updated_ws[i][k] # <<>>
    /\ \E i \in 2..Len(updated_ws) : \A k \in 3..Len(headers) : updated_ws[i][k] = <<>>


(* ------------- statements that the code does not satisfy --------------- *)
\* the report periods written with two calendar dates, the first not after the second
ValidPeriods ==
    {[text |-> CellText(pre, <<p[1], p[2]>>, post),
      start |-> strptime(p[1]).date, end |-> strptime(p[2]).date] :
        pre \in Pres, post \in Posts,
        p \in {q \in DateTexts \X DateTexts :
                 /\ <<q[1], q[2]>> \in DateLists
                 /\ strptime(q[1]).ok /\ strptime(q[2]).ok
                 /\ ToOrdinal(strptime(q[1]).date) <= ToOrdinal(strptime(q[2]).date)}}

PeriodDateSet(p) ==
    /\ err = "none"
    /\ Cardinality(dates) = ToOrdinal(p.end) - ToOrdinal(p.start) + 1
    /\ strftime(p.start) \in dates
    /\ strftime(p.end) \in dates

\* C2: for every report period of two dates with start <= end,
\* extract_dates_from_range returns a date set of exactly (end - start + 1) dates
\* that contains the start date and the end date.
C2_DateSetOfEveryPeriod ==
    pc # "start" => \A p \in ValidPeriods : cell = p.text => PeriodDateSet(p)

\* C2 holds of every enumerated period that does not end on date.max (12/31/9999)
C2_DateSetUnlessPeriodEndsOnDateMax ==
    pc # "start" =>
        \A p \in ValidPeriods : (cell = p.text /\ ~IsDateMax(p.end)) => PeriodDateSet(p)

\* a date string that strptime('%m/%d/%Y') parses
ParseableDate(v) ==
    v.kind = "str" /\ date_matches(v.s) = <<v.s>> /\ strptime(v.s).ok

\* C4: a record whose date field is neither a date object nor a parseable date
\* string ends the aggregation in an error; no later record is processed.
C4_UnparseableDateIsFatal ==
    \A i \in 1..Len(rows) :
        (rows[i].date.kind # "datetime" /\ ~ParseableDate(rows[i].date))
            => pc = "error" /\ i = Len(rows)

\* the calendar date of a slot header
HeaderDate(h) == strptime(SubSeq(h, 1, 10)).date

HeaderPairs ==
    /\ Len(headers) = 2 + 2 * Cardinality(dates)
    /\ headers[1] = S_Name /\ headers[2] = S_Tech
    /\ \A k \in 1..Cardinality(dates) : \E d \in dates :
          /\ headers[2 * k + 1] = d \o <<" ">> \o S_Morning
          /\ headers[2 * k + 2] = d \o <<" ">> \o S_Afternoon

\* C6: after the two identity labels the header list holds one Morning/Afternoon
\* pair per date, Morning first, and the date of each pair is strictly later, as a
\* calendar date, than the date of the pair before it.
C6_HeadersAscendByDate ==
    pc = "rows" =>
        /\ HeaderPairs
        /\ \A k \in 1..(Cardinality(dates) - 1) :
              ToOrdinal(HeaderDate(headers[2 * k + 1]))
                  < ToOrdinal(HeaderDate(headers[2 * k + 3]))

\* C6 holds of every enumerated period that lies within one calendar year
C6_HeadersAscendWithinOneYear ==
    pc = "rows" =>
        /\ HeaderPairs
        /\ (\A k \in 1..Cardinality(dates) :
                HeaderDate(headers[2 * k + 1]).y = HeaderDate(headers[3]).y)
           => \A k \in 1..(Cardinality(dates) - 1) :
                 ToOrdinal(HeaderDate(headers[2 * k + 1]))
                     < ToOrdinal(HeaderDate(headers[2 * k + 3]))

\* the comments that hold exactly one term of each vocabulary
OneOfEach ==
    {[text |-> CommentOf(e, a, c, swap), tags |-> <<e, a, c>>] :
        e \in EngTerms, a \in TermsOf(action_terms), c \in TermsOf(circuit_terms),
        swap \in BOOLEAN}

\* C7: extract_eng_circuit returns three empty strings on a comment without any
\* term, and exactly the three terms on a comment that holds one term of each
\* vocabulary, for every term of the vocabularies.
C7_TaggerFindsEveryTerm ==
    pc = "tagged" =>
        /\ job_comment \in PlainComments => tagged = << <<>>, <<>>, <<>> >>
        /\ \A p \in OneOfEach : job_comment = p.text => tagged = p.tags

S_FCPlus == <<"F","C","+">>

\* C7 holds of every term but the circuit type FC+
C7_TaggerFindsEveryTermButFCPlus ==
    pc = "tagged" =>
        /\ job_comment \in PlainComments => tagged = << <<>>, <<>>, <<>> >>
        /\ \A p \in OneOfEach :
              (job_comment = p.text /\ p.tags[3] # S_FCPlus) => tagged = p.tags

====
